---------------------------- MODULE Spec2Model ----------------------------
(***************************************************************************)
(* Model of the CMP threshold-ECDSA core of multi-party-sig:               *)
(*   - signing round 1 (sequential Finalize and worker-pool Finalize),     *)
(*   - polynomials "in the exponent" (Evaluate, evaluateClassic, Sum,      *)
(*     MarshalBinary, UnmarshalBinary),                                    *)
(*   - the keygen Config (Validate, CanSign, DeriveChild),                 *)
(*   - curve.Point on the wire (Marshal, MarshalTo, Unmarshal).            *)
(* The curve group is a cyclic group of small prime order; a point is      *)
(* written by its discrete logarithm with respect to the base point G.     *)
(* On the wire a point is written by its Jacobian coordinates on the       *)
(* curve y^2 = x^3 + 7 over a small prime field.                           *)
(***************************************************************************)
EXTENDS Integers, Sequences, FiniteSets, TLC

VARIABLES
    \* ---- signing round 1
    r,          \* the round1 state: SelfID, PartyIDs, Paillier, Pedersen
    version,    \* which Finalize runs: "seq" (round1.go) or "pool" (part_002)
    pc,         \* position of Finalize: "r1", "parallel", "returned"
    smp,        \* values sampled by Finalize (GammaShare, KShare, K, G, nonces)
    tasks,      \* per-peer task position: "todo", "proved", "done"
    taskHash,   \* per-peer task: its own transcript hash
    taskProof,  \* per-peer task: the proof it built
    errors,     \* the slice Parallelize returns, one entry per task
    out,        \* the out channel: messages sent so far
    ret         \* what Finalize returned: [round, err]

signVars == <<r, version, pc, smp, tasks, taskHash, taskProof, errors, out, ret>>

VARIABLES
    \* ---- polynomials in the exponent
    polys,      \* the input polynomials: each a sequence of scalars a0..at
    xval,       \* the scalar at which the polynomials are evaluated
    heap,       \* the Exponent objects: address -> [IsConstant, Coefficients]
    exps,       \* the []*Exponent built from polys: a sequence of addresses
    ppc,        \* "polys", "exps", "evaluated", "summed", "done", "marshalled",
                \* "unmarshalled"
    evals,      \* per exponent polynomial: Evaluate and evaluateClassic at x
    sumRes,     \* what Sum returned: [status, ptr, err]
    sumEval,    \* Evaluate of the summed exponent polynomial at x
    wire,       \* per Exponent object: what MarshalBinary returned, [data, err]
    decoded     \* per Exponent object: UnmarshalBinary of its bytes, [e, err]

polyVars == <<polys, xval, heap, exps, ppc, evals, sumRes, sumEval, wire, decoded>>

VARIABLES
    \* ---- keygen Config
    cfg,        \* the Config the calls are made on
    call        \* the last call on it: its name, arguments and result

cfgVars == <<cfg, call>>

VARIABLES
    \* ---- curve.Point on the wire
    pt,         \* the receiver *Point: Nil, or its Jacobian coordinates [X, Y, Z]
    wcall       \* the last Marshal/Unmarshal call: arguments and results

curveVars == <<pt, wcall>>

vars == <<signVars, polyVars, cfgVars, curveVars>>

\* the absent value (a nil pointer, a nil error)
Nil == [nil |-> TRUE]

--------------------------------------------------------------------------
(* Bounds of the model *)

\* number of parties known to the model (party IDs 1..NParties)
NParties == 3

\* Paillier encryption nonces are drawn from 1..MaxNonce
MaxNonce == 1

\* largest degree of a polynomial evaluated on its own
MaxDeg == 3

\* largest degree of the polynomials of a list given to Sum
MaxSumDeg == 1

\* largest number of polynomials in a list given to Sum
MaxPolys == 2

\* party IDs of a Config are 1..MaxCfgParties; its threshold is at most that
MaxCfgParties == 2

\* longest list of signers given to CanSign
MaxSigners == 3

\* longest chain of child derivations
MaxDepth == 1

\* child indices given to DeriveChild are 0..MaxIndex
MaxIndex == 1

--------------------------------------------------------------------------
(* Scalars and points *)

\* order q of the curve group (a small prime standing for the secp256k1 order)
GroupOrder == 5

Scalars == 0 .. (GroupOrder - 1)

ScalarAdd(a, b) == (a + b) % GroupOrder

ScalarMul(a, b) == (a * b) % GroupOrder

\* a point is dlog * G
Points == [dlog : Scalars]

NewPoint == [dlog |-> 0]

IsIdentity(p) == p.dlog = 0

PointAdd(p, q) == [dlog |-> (p.dlog + q.dlog) % GroupOrder]

Act(x, p) == [dlog |-> (x * p.dlog) % GroupOrder]

ActOnBase(s) == [dlog |-> s % GroupOrder]

--------------------------------------------------------------------------
(* Round helper and collaborators of signing round 1 *)

Parties == 1 .. NParties

RECURSIVE SortedSeq(_)
SortedSeq(S) ==
    IF S = {} THEN <<>>
    ELSE LET m == CHOOSE a \in S : \A b \in S : a <= b
         IN  <<m>> \o SortedSeq(S \ {m})

SelfID == r.SelfID

OtherPartyIDs == SortedSeq({j \in r.PartyIDs : j # r.SelfID})

\* a fresh clone of the session hash, bound to party id
HashForID(id) == <<"ssid", r.PartyIDs, "id", id>>

\* Enc(m; nonce) under public key pk
Enc(pk, m, nonce) == [pk |-> pk, m |-> m, nonce |-> nonce]

\* the enc-range proof: what it was built from, and the transcript it wrote
NewProof(hash, public, private) ==
    [transcript |-> hash \o <<public.K, public.Prover, public.Aux>>,
     K |-> public.K, Prover |-> public.Prover, Aux |-> public.Aux,
     k |-> private.K, rho |-> private.Rho]

MarshalMessage(content, to) == [From |-> SelfID, To |-> to, Content |-> content]

\* a non-blocking send on the out channel: it is accepted, or it fails
SendMessage(msg, ch, accepted) ==
    IF accepted THEN [out |-> Append(ch, msg), err |-> Nil]
    ELSE [out |-> ch, err |-> [error |-> "send", To |-> msg.To]]

\* Parallelize returns once every task has returned
ParallelizeDone == \A i \in DOMAIN tasks : tasks[i] = "done"

--------------------------------------------------------------------------
(* round1.Finalize *)

\* lines 57-66: the values Finalize samples and encrypts
Sample(gamma, k, nu, rho) ==
    [GammaShare |-> gamma, BigGammaShare |-> ActOnBase(gamma),
     G |-> Enc(r.Paillier[SelfID], gamma, nu), GNonce |-> nu,
     KShare |-> k,
     K |-> Enc(r.Paillier[SelfID], k, rho), KNonce |-> rho]

\* ProofFor with the prover's own Pedersen parameters as Aux
ProofForSelfAux(s, j) ==
    NewProof(HashForID(SelfID),
             [K |-> s.K, Prover |-> r.Paillier[SelfID], Aux |-> r.Pedersen[SelfID]],
             [K |-> s.KShare, Rho |-> s.KNonce])

\* ProofFor on one hash shared by the tasks instead of a fresh clone each:
\* the hash holds what the tasks before have written
ProofForSharedHash(s, j) ==
    LET written == SelectSeq(taskHash, LAMBDA t : t # <<>>)
        hash == IF written = <<>> THEN HashForID(SelfID)
                ELSE HashForID(SelfID) \o <<written>>
    IN  NewProof(hash,
                 [K |-> s.K, Prover |-> r.Paillier[SelfID], Aux |-> r.Pedersen[j]],
                 [K |-> s.KShare, Rho |-> s.KNonce])

\* the proof built for peer j
ProofFor(s, j) ==
    NewProof(HashForID(SelfID),
             [K |-> s.K, Prover |-> r.Paillier[SelfID], Aux |-> r.Pedersen[j]],
             [K |-> s.KShare, Rho |-> s.KNonce])

\* the Sign2 message for peer j
Sign2Msg(s, proof, j) ==
    MarshalMessage([ProofEnc |-> proof, K |-> s.K, G |-> s.G], j)

\* Round2 with the maps seeded for every party of the session
Round2AllParties(s) ==
    [kind |-> "round2", round1 |-> r,
     K |-> [j \in r.PartyIDs |-> s.K],
     G |-> [j \in r.PartyIDs |-> s.G],
     BigGammaShare |-> [j \in r.PartyIDs |-> s.BigGammaShare],
     GammaShare |-> s.GammaShare, KShare |-> s.KShare,
     KNonce |-> s.KNonce, GNonce |-> s.GNonce]

\* the round2 state Finalize returns on success
Round2(s) ==
    [kind |-> "round2", round1 |-> r,
     K |-> (SelfID :> s.K),
     G |-> (SelfID :> s.G),
     BigGammaShare |-> (SelfID :> s.BigGammaShare),
     GammaShare |-> s.GammaShare, KShare |-> s.KShare,
     KNonce |-> s.KNonce, GNonce |-> s.GNonce]

Round1 == [kind |-> "round1", round1 |-> r]

\* the loop over the errors slice keeping the last non-nil error
LastError(errs) ==
    IF \E i \in DOMAIN errs : errs[i] # Nil
    THEN errs[CHOOSE i \in DOMAIN errs :
                 errs[i] # Nil /\ \A k \in DOMAIN errs : errs[k] # Nil => i >= k]
    ELSE Nil

\* the loop over the errors slice: the first non-nil error, if any
FirstError(errs) ==
    IF \E i \in DOMAIN errs : errs[i] # Nil
    THEN errs[CHOOSE i \in DOMAIN errs :
                 errs[i] # Nil /\ \A k \in DOMAIN errs : errs[k] # Nil => i <= k]
    ELSE Nil

FinalizeReturn(s, err) ==
    IF err # Nil THEN [round |-> Round1, err |-> err]
    ELSE [round |-> Round2(s), err |-> Nil]

\* messages for the first n peers, in the order of OtherPartyIDs
RECURSIVE SeqSends(_, _)
SeqSends(s, n) ==
    IF n = 0 THEN <<>>
    ELSE Append(SeqSends(s, n - 1),
                Sign2Msg(s, ProofFor(s, OtherPartyIDs[n]), OtherPartyIDs[n]))

\* the sequential Finalize: the loop stops at the first failed send
FinalizeSeq ==
    /\ pc = "r1"
    /\ \E gamma \in Scalars, k \in Scalars, nu \in 1..MaxNonce, rho \in 1..MaxNonce :
       \E failAt \in 1 .. (Len(OtherPartyIDs) + 1) :
          LET s == Sample(gamma, k, nu, rho)
              failed == failAt <= Len(OtherPartyIDs)
              sent == SeqSends(s, failAt - 1)
              res == IF failed
                     THEN SendMessage(Sign2Msg(s, ProofFor(s, OtherPartyIDs[failAt]),
                                               OtherPartyIDs[failAt]),
                                      out \o sent, FALSE)
                     ELSE [out |-> out \o sent, err |-> Nil]
          IN  /\ smp' = s
              /\ out' = res.out
              /\ ret' = FinalizeReturn(s, res.err)
    /\ version' = "seq"
    /\ pc' = "returned"
    /\ UNCHANGED <<r, tasks, taskHash, taskProof, errors>>
    /\ UNCHANGED <<polyVars, cfgVars, curveVars>>

\* the worker-pool Finalize up to the call of Parallelize
FinalizeStart ==
    /\ pc = "r1"
    /\ \E gamma \in Scalars, k \in Scalars, nu \in 1..MaxNonce, rho \in 1..MaxNonce :
          smp' = Sample(gamma, k, nu, rho)
    /\ version' = "pool"
    /\ pc' = "parallel"
    /\ tasks' = [i \in 1..Len(OtherPartyIDs) |-> "todo"]
    /\ taskHash' = [i \in 1..Len(OtherPartyIDs) |-> <<>>]
    /\ taskProof' = [i \in 1..Len(OtherPartyIDs) |-> Nil]
    /\ errors' = [i \in 1..Len(OtherPartyIDs) |-> Nil]
    /\ UNCHANGED <<r, out, ret>>
    /\ UNCHANGED <<polyVars, cfgVars, curveVars>>

\* task i: zkenc.NewProof on a fresh hash
TaskProve(i) ==
    /\ pc = "parallel"
    /\ tasks[i] = "todo"
    /\ LET proof == ProofFor(smp, OtherPartyIDs[i])
       IN  /\ taskProof' = [taskProof EXCEPT ![i] = proof]
           /\ taskHash' = [taskHash EXCEPT ![i] = proof.transcript]
    /\ tasks' = [tasks EXCEPT ![i] = "proved"]
    /\ UNCHANGED <<r, version, pc, smp, errors, out, ret>>
    /\ UNCHANGED <<polyVars, cfgVars, curveVars>>

\* task i: MarshalMessage, SendMessage, and the task's result
TaskSend(i) ==
    /\ pc = "parallel"
    /\ tasks[i] = "proved"
    /\ \E accepted \in BOOLEAN :
          LET res == SendMessage(Sign2Msg(smp, taskProof[i], OtherPartyIDs[i]),
                                 out, accepted)
          IN  /\ out' = res.out
              /\ errors' = [errors EXCEPT ![i] = res.err]
    /\ tasks' = [tasks EXCEPT ![i] = "done"]
    /\ UNCHANGED <<r, version, pc, smp, taskHash, taskProof, ret>>
    /\ UNCHANGED <<polyVars, cfgVars, curveVars>>

\* Parallelize has returned: the loop over errors, and the return
FinalizeJoin ==
    /\ pc = "parallel"
    /\ ParallelizeDone
    /\ ret' = FinalizeReturn(smp, FirstError(errors))
    /\ pc' = "returned"
    /\ UNCHANGED <<r, version, smp, tasks, taskHash, taskProof, errors, out>>
    /\ UNCHANGED <<polyVars, cfgVars, curveVars>>

\* a signing session of a non-empty set of signers, seen from one of them
InitSign ==
    /\ \E ids \in (SUBSET Parties) \ {{}} : \E self \in ids :
          r = [SelfID |-> self, PartyIDs |-> ids,
               Paillier |-> [j \in ids |-> [N |-> 2 * j + 1]],
               Pedersen |-> [j \in ids |-> [N |-> 2 * j + 1, S |-> j, T |-> j + 1]]]
    /\ version = "none"
    /\ pc = "r1"
    /\ smp = Nil
    /\ tasks = <<>>
    /\ taskHash = <<>>
    /\ taskProof = <<>>
    /\ errors = <<>>
    /\ out = <<>>
    /\ ret = Nil

NextSign ==
    \/ FinalizeSeq
    \/ FinalizeStart
    \/ \E i \in DOMAIN tasks : TaskProve(i)
    \/ \E i \in DOMAIN tasks : TaskSend(i)
    \/ FinalizeJoin

--------------------------------------------------------------------------
(* Polynomials and polynomials in the exponent *)

\* f(x) = a0 + a1 x + ... + at x^t in the scalar field
RECURSIVE PolyEvaluate(_, _)
PolyEvaluate(f, at) ==
    IF Len(f) = 0 THEN 0
    ELSE ScalarAdd(f[1], ScalarMul(at, PolyEvaluate(Tail(f), at)))

\* the coefficients from index i on, each acted on the base point
RECURSIVE ExpCoefficients(_, _)
ExpCoefficients(f, i) ==
    IF i > Len(f) THEN <<>>
    ELSE <<ActOnBase(f[i])>> \o ExpCoefficients(f, i + 1)

NewPolynomialExponent(f) ==
    LET isConstant == (f[1] = 0)
    IN  [IsConstant |-> isConstant,
         Coefficients |-> ExpCoefficients(f, IF isConstant THEN 2 ELSE 1)]

\* the Horner loop from index i down to the first coefficient
RECURSIVE HornerLoop(_, _, _, _)
HornerLoop(coefs, at, i, result) ==
    IF i < 1 THEN result
    ELSE HornerLoop(coefs, at, i - 1, PointAdd(Act(at, result), coefs[i]))

\* Evaluate without the final multiplication by x when IsConstant
EvaluateNoFinalMul(p, at) ==
    HornerLoop(p.Coefficients, at, Len(p.Coefficients), NewPoint)

Evaluate(p, at) ==
    LET result == HornerLoop(p.Coefficients, at, Len(p.Coefficients), NewPoint)
    IN  IF p.IsConstant THEN Act(at, result) ELSE result

\* the loop over the powers of x from index i up
RECURSIVE ClassicLoop(_, _, _, _, _)
ClassicLoop(coefs, at, i, xPower, result) ==
    IF i > Len(coefs) THEN result
    ELSE ClassicLoop(coefs, at, i + 1, ScalarMul(xPower, at),
                     PointAdd(result, Act(xPower, coefs[i])))

evaluateClassic(p, at) ==
    ClassicLoop(p.Coefficients, at, 1,
                IF p.IsConstant THEN ScalarMul(1, at) ELSE 1, NewPoint)

Degree(p) ==
    IF p.IsConstant THEN Len(p.Coefficients) ELSE Len(p.Coefficients) - 1

\* add whose loop starts after the first coefficient
addSkipFirst(h, p, q) ==
    IF Len(h[p].Coefficients) # Len(h[q].Coefficients)
    THEN [heap |-> h, err |-> [error |-> "q is not the same length as p"]]
    ELSE IF h[p].IsConstant # h[q].IsConstant
    THEN [heap |-> h, err |-> [error |-> "p and q differ in 'IsConstant'"]]
    ELSE [heap |-> [h EXCEPT ![p].Coefficients =
                        [i \in DOMAIN h[p].Coefficients |->
                            IF i = 1 THEN h[p].Coefficients[i]
                            ELSE PointAdd(h[p].Coefficients[i], h[q].Coefficients[i])]],
          err |-> Nil]

\* p.add(q) on the heap h: p is changed in place
add(h, p, q) ==
    IF Len(h[p].Coefficients) # Len(h[q].Coefficients)
    THEN [heap |-> h, err |-> [error |-> "q is not the same length as p"]]
    ELSE IF h[p].IsConstant # h[q].IsConstant
    THEN [heap |-> h, err |-> [error |-> "p and q differ in 'IsConstant'"]]
    ELSE [heap |-> [h EXCEPT ![p].Coefficients =
                        [i \in DOMAIN h[p].Coefficients |->
                            PointAdd(h[p].Coefficients[i], h[q].Coefficients[i])]],
          err |-> Nil]

\* copy returning the receiver itself instead of a new object
copyAliased(h, p) == [heap |-> h, ptr |-> p]

\* the nil *Exponent: no address of the heap
NilPtr == 0

\* p.copy(): a new object with its own coefficient slice
copy(h, p) ==
    [heap |-> Append(h, [IsConstant |-> h[p].IsConstant,
                         Coefficients |-> [i \in DOMAIN h[p].Coefficients |->
                                              h[p].Coefficients[i]]]),
     ptr |-> Len(h) + 1]

\* the loop of Sum from index j on
RECURSIVE SumLoop(_, _, _, _)
SumLoop(h, summed, polynomials, j) ==
    IF j > Len(polynomials)
    THEN [heap |-> h, status |-> "ok", ptr |-> summed, err |-> Nil]
    ELSE LET a == add(h, summed, polynomials[j])
         IN  IF a.err # Nil
             THEN [heap |-> a.heap, status |-> "error", ptr |-> NilPtr, err |-> a.err]
             ELSE SumLoop(a.heap, summed, polynomials, j + 1)

\* Sum: polynomials[0] of an empty slice is a run-time panic
Sum(h, polynomials) ==
    IF Len(polynomials) = 0
    THEN [heap |-> h, status |-> "panic", ptr |-> NilPtr, err |-> [error |-> "index out of range"]]
    ELSE LET c == copy(h, polynomials[1])
         IN  SumLoop(c.heap, c.ptr, polynomials, 2)

\* Equal: p is the receiver, other the argument
Equal(p, other) ==
    /\ p.IsConstant = other.IsConstant
    /\ Len(p.Coefficients) = Len(other.Coefficients)
    /\ \A i \in DOMAIN p.Coefficients : p.Coefficients[i] = other.Coefficients[i]

\* Constant: the constant coefficient in the exponent
Constant(p) == IF p.IsConstant THEN NewPoint ELSE p.Coefficients[1]

\* the x coordinate shared by a point and its negative
PointX(p) == IF 2 * p.dlog > GroupOrder THEN GroupOrder - p.dlog ELSE p.dlog

\* the format byte: 2 for an even y coordinate, 3 for an odd one
PointFormat(p) == IF 2 * p.dlog > GroupOrder THEN 3 ELSE 2

\* the binary form of a point: compressed; the identity has none
PointMarshalBinary(p) ==
    IF IsIdentity(p) THEN [data |-> <<>>, err |-> [error |-> "tries to marshal identity"]]
    ELSE [data |-> <<PointFormat(p), PointX(p)>>, err |-> Nil]

\* a point from its binary form
PointUnmarshalBinary(data) ==
    IF Len(data) # 2 \/ data[1] \notin {2, 3}
    THEN [point |-> Nil, err |-> [error |-> "incorrect format"]]
    ELSE IF \A q \in Points : IsIdentity(q) \/ PointX(q) # data[2]
    THEN [point |-> Nil, err |-> [error |-> "x coordinate is not on the curve"]]
    ELSE [point |-> CHOOSE q \in Points :
                       ~IsIdentity(q) /\ PointX(q) = data[2] /\ PointFormat(q) = data[1],
          err |-> Nil]

\* the CBOR items of the points from index i on: a byte string each
RECURSIVE CborPoints(_, _)
CborPoints(coefs, i) ==
    IF i > Len(coefs) THEN <<>>
    ELSE <<"bytes">> \o PointMarshalBinary(coefs[i]).data \o CborPoints(coefs, i + 1)

\* cbor.Marshal of rawExponentData: a map of the two fields by name; it
\* fails when a coefficient has no binary form
CborMarshal(raw) ==
    IF \E i \in DOMAIN raw.Coefficients : PointMarshalBinary(raw.Coefficients[i]).err # Nil
    THEN [data |-> <<>>, err |-> [error |-> "tries to marshal identity"]]
    ELSE [data |-> <<"map", 2, "IsConstant", raw.IsConstant,
                     "Coefficients", "array", Len(raw.Coefficients)>>
                   \o CborPoints(raw.Coefficients, 1),
          err |-> Nil]

\* decoding the array items from index i on into the slice: an item is
\* decoded into the point its element holds; an element holding nothing
\* cannot be decoded into
RECURSIVE CborArray(_, _, _)
CborArray(items, slice, i) ==
    IF i > Len(slice) THEN [Coefficients |-> slice, err |-> Nil]
    ELSE IF Len(items) < 3 * i \/ items[3 * i - 2] # "bytes"
    THEN [Coefficients |-> slice, err |-> [error |-> "cbor: unexpected item"]]
    ELSE IF slice[i] = Nil
    THEN [Coefficients |-> slice,
          err |-> [error |-> "cbor: cannot unmarshal into curve.Point"]]
    ELSE LET dec == PointUnmarshalBinary(SubSeq(items, 3 * i - 1, 3 * i))
         IN  IF dec.err # Nil THEN [Coefficients |-> slice, err |-> dec.err]
             ELSE CborArray(items, [slice EXCEPT ![i] = dec.point], i + 1)

\* cbor.Unmarshal into rawExponentData whose Coefficients slice is given: the
\* slice is kept, cut to the length of the array, when it can hold the
\* array; otherwise a new slice of elements holding nothing is made
CborUnmarshal(data, raw) ==
    IF Len(data) < 7 \/ SubSeq(data, 1, 3) # <<"map", 2, "IsConstant">>
       \/ SubSeq(data, 5, 6) # <<"Coefficients", "array">>
    THEN [raw |-> raw, err |-> [error |-> "cbor: unexpected item"]]
    ELSE LET count == data[7]
             slice == IF Len(raw.Coefficients) < count \/ count = 0
                      THEN [i \in 1 .. count |-> Nil]
                      ELSE SubSeq(raw.Coefficients, 1, count)
             arr == CborArray(SubSeq(data, 8, Len(data)), slice, 1)
         IN  IF arr.err # Nil THEN [raw |-> raw, err |-> arr.err]
             ELSE [raw |-> [IsConstant |-> data[4], Coefficients |-> arr.Coefficients],
                   err |-> Nil]

\* binary.LittleEndian.PutUint32
LittleEndianPutUint32(v) ==
    <<v % 256, (v \div 256) % 256, (v \div 65536) % 256, (v \div 16777216) % 256>>

\* binary.BigEndian.PutUint32
BigEndianPutUint32(v) ==
    <<(v \div 16777216) % 256, (v \div 65536) % 256, (v \div 256) % 256, v % 256>>

\* binary.BigEndian.Uint32 of the first four bytes
BigEndianUint32(data) ==
    data[1] * 16777216 + data[2] * 65536 + data[3] * 256 + data[4]

\* MarshalBinary with the degree written as the size
MarshalBinaryDegreePrefix(e) ==
    LET m == CborMarshal([IsConstant |-> e.IsConstant, Coefficients |-> e.Coefficients])
    IN  IF m.err # Nil THEN [data |-> Nil, err |-> m.err]
        ELSE [data |-> BigEndianPutUint32(Degree(e)) \o m.data, err |-> Nil]

MarshalBinary(e) ==
    LET m == CborMarshal([IsConstant |-> e.IsConstant, Coefficients |-> e.Coefficients])
        size == Len(e.Coefficients)
    IN  IF m.err # Nil THEN [data |-> Nil, err |-> m.err]
        ELSE [data |-> BigEndianPutUint32(size) \o m.data, err |-> Nil]

\* EmptyExponent(group)
EmptyExponent == [IsConstant |-> FALSE, Coefficients |-> <<>>]

\* e.UnmarshalBinary(data), e with a group: the receiver afterwards, and the
\* error
UnmarshalBinary(e, data) ==
    LET size == BigEndianUint32(data)
        prepared == [i \in 1 .. size |-> NewPoint]
        u == CborUnmarshal(SubSeq(data, 5, Len(data)),
                           [IsConstant |-> FALSE, Coefficients |-> prepared])
    IN  IF u.err # Nil
        THEN [e |-> [e EXCEPT !.Coefficients = prepared], err |-> u.err]
        ELSE [e |-> [IsConstant |-> u.raw.IsConstant,
                     Coefficients |-> u.raw.Coefficients],
              err |-> Nil]

\* the polynomials of degree at most d with coefficients in C
PolysUpTo(d, C) == UNION {[1 .. (n + 1) -> C] : n \in 0 .. d}

\* the lists of at most m elements of S
ListsUpTo(m, S) == UNION {[1 .. n -> S] : n \in 0 .. m}

\* coefficients of the polynomials given to Sum: zero, one and minus one
SumCoefs == {0, 1, GroupOrder - 1}

\* the polynomials given to Sum: of degree at most d, the constant term in
\* SumCoefs, the other coefficients (sampled at random) not zero
SumPolys(d) == {f \in PolysUpTo(d, SumCoefs) : \A i \in 2 .. Len(f) : f[i] # 0}

\* NewPolynomialExponent of every input polynomial
MakeExponents ==
    /\ ppc = "polys"
    /\ heap' = [i \in DOMAIN polys |-> NewPolynomialExponent(polys[i])]
    /\ exps' = [i \in DOMAIN polys |-> i]
    /\ ppc' = "exps"
    /\ UNCHANGED <<polys, xval, evals, sumRes, sumEval, wire, decoded>>
    /\ UNCHANGED <<signVars, cfgVars, curveVars>>

\* Evaluate and evaluateClassic of every exponent polynomial at x
DoEvaluate ==
    /\ ppc = "exps"
    /\ evals' = [i \in DOMAIN exps |->
                    [Evaluate |-> Evaluate(heap[exps[i]], xval),
                     evaluateClassic |-> evaluateClassic(heap[exps[i]], xval)]]
    /\ ppc' = "evaluated"
    /\ UNCHANGED <<polys, xval, heap, exps, sumRes, sumEval, wire, decoded>>
    /\ UNCHANGED <<signVars, cfgVars, curveVars>>

\* Sum of the exponent polynomials
DoSum ==
    /\ ppc = "evaluated"
    /\ LET res == Sum(heap, exps)
       IN  /\ heap' = res.heap
           /\ sumRes' = [status |-> res.status, ptr |-> res.ptr, err |-> res.err]
    /\ ppc' = "summed"
    /\ UNCHANGED <<polys, xval, exps, evals, sumEval, wire, decoded>>
    /\ UNCHANGED <<signVars, cfgVars, curveVars>>

\* Evaluate of the polynomial Sum returned
EvaluateSum ==
    /\ ppc = "summed"
    /\ sumRes.status = "ok"
    /\ sumEval' = Evaluate(heap[sumRes.ptr], xval)
    /\ ppc' = "done"
    /\ UNCHANGED <<polys, xval, heap, exps, evals, sumRes, wire, decoded>>
    /\ UNCHANGED <<signVars, cfgVars, curveVars>>

\* MarshalBinary of every Exponent object: the inputs and what Sum made
DoMarshalBinary ==
    /\ \/ ppc = "done"
       \/ ppc = "summed" /\ sumRes.status # "ok"
    /\ wire' = [a \in DOMAIN heap |-> MarshalBinary(heap[a])]
    /\ ppc' = "marshalled"
    /\ UNCHANGED <<polys, xval, heap, exps, evals, sumRes, sumEval, decoded>>
    /\ UNCHANGED <<signVars, cfgVars, curveVars>>

\* UnmarshalBinary of the bytes of every object on an EmptyExponent
DoUnmarshalBinary ==
    /\ ppc = "marshalled"
    /\ decoded' = [a \in DOMAIN wire |->
                      IF wire[a].err # Nil THEN Nil
                      ELSE UnmarshalBinary(EmptyExponent, wire[a].data)]
    /\ ppc' = "unmarshalled"
    /\ UNCHANGED <<polys, xval, heap, exps, evals, sumRes, sumEval, wire>>
    /\ UNCHANGED <<signVars, cfgVars, curveVars>>

InitPoly ==
    /\ polys \in {<<f>> : f \in PolysUpTo(MaxDeg, Scalars)}
                 \cup ListsUpTo(MaxPolys, SumPolys(MaxSumDeg))
    /\ xval \in Scalars
    /\ heap = <<>>
    /\ exps = <<>>
    /\ ppc = "polys"
    /\ evals = <<>>
    /\ sumRes = Nil
    /\ sumEval = Nil
    /\ wire = <<>>
    /\ decoded = <<>>

IdlePoly ==
    /\ polys = <<>>
    /\ xval = 0
    /\ heap = <<>>
    /\ exps = <<>>
    /\ ppc = "idle"
    /\ evals = <<>>
    /\ sumRes = Nil
    /\ sumEval = Nil
    /\ wire = <<>>
    /\ decoded = <<>>

NextPoly ==
    \/ MakeExponents
    \/ DoEvaluate
    \/ DoSum
    \/ EvaluateSum
    \/ DoMarshalBinary
    \/ DoUnmarshalBinary

IdleSign ==
    /\ r = Nil
    /\ version = "none"
    /\ pc = "idle"
    /\ smp = Nil
    /\ tasks = <<>>
    /\ taskHash = <<>>
    /\ taskProof = <<>>
    /\ errors = <<>>
    /\ out = <<>>
    /\ ret = Nil


--------------------------------------------------------------------------
(* keygen.Config *)

\* a *curve.Scalar, a *safenum.Nat or *safenum.Modulus that is not nil
ScalarPtr(v) == [s |-> v]

NatPtr(v) == [n |-> v]

\* validThreshold is given t = int(c.Threshold) of a uint32, on which its test
\* t > math.MaxUint32 is never true (int has 64 bits); the test is left out.
\* validThreshold with t > n in place of t > n-1
validThresholdOffByOne(t, n) ==
    /\ ~(t < 0)
    /\ ~(n <= 0 \/ t > n)

validThreshold(t, n) ==
    /\ ~(t < 0)
    /\ ~(n <= 0 \/ t > n - 1)

\* party.IDSlice.Valid: sorted, without duplicates
IDSliceValid(ids) == \A i \in 2 .. Len(ids) : ids[i - 1] < ids[i]

\* party.IDSlice.Contains
IDSliceContains(ids, id) == \E i \in DOMAIN ids : ids[i] = id

CanSign(c, signers) ==
    IF ~validThreshold(c.Threshold, Len(signers)) THEN FALSE
    ELSE IF ~IDSliceValid(signers) THEN FALSE
    ELSE IF ~IDSliceContains(signers, c.ID) THEN FALSE
    ELSE IF \E i \in DOMAIN signers : signers[i] \notin DOMAIN c.Public THEN FALSE
    ELSE TRUE

IsPrime(n) == n > 1 /\ \A d \in 2 .. (n - 1) : n % d # 0

RECURSIVE Gcd(_, _)
Gcd(a, b) == IF b = 0 THEN a ELSE Gcd(b, a % b)

Err(msg) == [error |-> msg]

\* paillier.ValidatePrime: p = 3 mod 4 and (p-1)/2 prime (the size is scaled away)
ValidatePrime(p) ==
    IF p = Nil THEN Err("prime is nil")
    ELSE IF p.n % 4 # 3 THEN Err("prime is not 3 mod 4")
    ELSE IF ~IsPrime((p.n - 1) \div 2) THEN Err("prime is not a safe prime")
    ELSE Nil

\* paillier.ValidateN: N is odd (the size is scaled away)
ValidateN(N) ==
    IF N = Nil THEN Err("modulus is nil")
    ELSE IF N.n % 2 # 1 THEN Err("modulus is even")
    ELSE Nil

\* pedersen.ValidateParameters: s, t invertible mod N and different
ValidateParameters(N, S, T) ==
    IF N = Nil \/ S = Nil \/ T = Nil THEN Err("n, s or t is nil")
    ELSE IF ~(/\ 0 < S.n /\ S.n < N.n /\ Gcd(N.n, S.n) = 1
              /\ 0 < T.n /\ T.n < N.n /\ Gcd(N.n, T.n) = 1)
    THEN Err("S and T must be invertible mod N")
    ELSE IF S.n = T.n THEN Err("S cannot be equal to T")
    ELSE Nil

\* Public.validate
PublicValidate(p) ==
    IF p = Nil THEN Err("public: one or more field is empty")
    ELSE IF p.ECDSA = Nil \/ p.N = Nil \/ p.S = Nil \/ p.T = Nil
    THEN Err("public: one or more field is empty")
    ELSE IF IsIdentity(p.ECDSA) THEN Err("public: ECDSA public key share is identity")
    ELSE IF ValidateN(p.N) # Nil THEN ValidateN(p.N)
    ELSE IF ValidateParameters(p.N, p.S, p.T) # Nil THEN ValidateParameters(p.N, p.S, p.T)
    ELSE Nil

\* safenum's Cmp: the choices (bigger, equal, smaller), each 1 or 0
ModulusCmp(a, b) ==
    <<IF a.n > b.n THEN 1 ELSE 0, IF a.n = b.n THEN 1 ELSE 0, IF a.n < b.n THEN 1 ELSE 0>>

\* the Paillier check with the comparison inverted
ModulusDiffersInverted(c, public) ==
    LET nMod == NatPtr(c.P.n * c.Q.n)
    IN  ModulusCmp(nMod, public.N)[2] = 1

\* lines 125-128: n = P*Q compared with the modulus of self
ModulusDiffers(c, public) ==
    LET nMod == NatPtr(c.P.n * c.Q.n)
    IN  ModulusCmp(nMod, public.N)[2] = 0

\* the share check left out
ShareDiffersNever(c, public) == FALSE

\* lines 120-121: x_i * G compared with the public share of self
ShareDiffers(c, public) == ActOnBase(c.ECDSA.s) # public.ECDSA

\* c.Public[c.ID] of a Go map: nil when the key is absent
PublicOfSelf(c) == IF c.ID \in DOMAIN c.Public THEN c.Public[c.ID] ELSE Nil

\* the errors the loop over c.Public can return: the map is ranged over in
\* no fixed order, so any invalid party may be the one reported
PartyErrors(c) ==
    {[error |-> "config: party", party |-> j, cause |-> PublicValidate(c.Public[j])] :
        j \in {k \in DOMAIN c.Public : PublicValidate(c.Public[k]) # Nil}}

\* Config.Validate: the values it can return (Nil: no error)
Validate(c) ==
    IF ~validThreshold(c.Threshold, Cardinality(DOMAIN c.Public))
    THEN {Err("config: threshold is invalid")}
    ELSE IF c.ECDSA = Nil \/ c.P = Nil \/ c.Q = Nil
    THEN {Err("config: one or more field is empty")}
    ELSE IF c.ECDSA.s = 0
    THEN {Err("config: ECDSA secret key share is zero")}
    ELSE IF ValidatePrime(c.P) # Nil THEN {Err("config: prime p")}
    ELSE IF ValidatePrime(c.Q) # Nil THEN {Err("config: prime q")}
    ELSE IF PartyErrors(c) # {} THEN PartyErrors(c)
    ELSE IF PublicOfSelf(c) = Nil THEN {Err("config: no public data for secret")}
    ELSE IF ShareDiffers(c, PublicOfSelf(c))
    THEN {Err("config: ECDSA secret key share does not correspond to public share")}
    ELSE IF ModulusDiffers(c, PublicOfSelf(c)) THEN {Err("config: P*Q != N")}
    ELSE {Nil}

\* party.ID.Scalar: the evaluation point of a party
IDScalar(j) == j % GroupOrder

ScalarInvert(a) == CHOOSE b \in Scalars : (a * b) % GroupOrder = 1

\* the orders in which a range loop can visit the keys of map m
RangeOrders(m) ==
    {o \in [1 .. Cardinality(DOMAIN m) -> DOMAIN m] :
        \A a, b \in DOMAIN o : a # b => o[a] # o[b]}

\* the product over the IDs k of the list other than j, from position n on
RECURSIVE LagrangeProduct(_, _, _)
LagrangeProduct(j, partyIDs, n) ==
    IF n > Len(partyIDs) THEN 1
    ELSE IF partyIDs[n] = j THEN LagrangeProduct(j, partyIDs, n + 1)
    ELSE LET k == partyIDs[n]
         IN  ScalarMul(ScalarMul(IDScalar(k),
                                 ScalarInvert((IDScalar(k) - IDScalar(j)) % GroupOrder)),
                       LagrangeProduct(j, partyIDs, n + 1))

\* polynomial.Lagrange: the coefficients at 0 for the IDs of the list
Lagrange(partyIDs) ==
    [j \in {partyIDs[n] : n \in DOMAIN partyIDs} |-> LagrangeProduct(j, partyIDs, 1)]

\* the second loop of publicPoint without the Lagrange coefficient
RECURSIVE publicPointSumUnweighted(_, _, _, _)
publicPointSumUnweighted(c, l, order, n) ==
    IF n = 0 THEN NewPoint
    ELSE PointAdd(publicPointSumUnweighted(c, l, order, n - 1),
                  c.Public[order[n]].ECDSA)

\* the second loop of publicPoint: sum after visiting the first n keys of order
RECURSIVE publicPointSum(_, _, _, _)
publicPointSum(c, l, order, n) ==
    IF n = 0 THEN NewPoint
    ELSE LET j == order[n]
             tmp == Act(l[j], c.Public[j].ECDSA)
         IN  PointAdd(publicPointSum(c, l, order, n - 1), tmp)

\* Config.publicPoint: the values it can return, over every order in which
\* the first range loop (the list given to Lagrange) and the second (the sum)
\* can visit the keys of c.Public
publicPoint(c) ==
    UNION {{publicPointSum(c, l, order, Len(order)) : order \in RangeOrders(c.Public)} :
              l \in {Lagrange(ids) : ids \in RangeOrders(c.Public)}}

\* bip32.DeriveScalar: an error, or a scalar and the child chain key
DeriveScalar(public, chainKey, i) ==
    {[scalar |-> Nil, chainKey |-> <<>>, err |-> Err("bip32: invalid child")]}
    \cup {[scalar |-> ScalarPtr(d), chainKey |-> Append(chainKey, i), err |-> Nil] :
             d \in Scalars}

\* DeriveChild adding the scalar to the secret share only
DeriveChildSecretOnly(c, i, ds) ==
    IF ds.err # Nil THEN [config |-> Nil, err |-> ds.err]
    ELSE [config |->
             [Threshold |-> c.Threshold, Public |-> c.Public, RID |-> c.RID,
              ChainKey |-> ds.chainKey, ID |-> c.ID,
              ECDSA |-> ScalarPtr(ScalarAdd(ds.scalar.s, c.ECDSA.s)),
              P |-> c.P, Q |-> c.Q],
          err |-> Nil]

\* Config.DeriveChild, given what bip32.DeriveScalar returned
DeriveChild(c, i, ds) ==
    IF ds.err # Nil THEN [config |-> Nil, err |-> ds.err]
    ELSE LET scalarG == ActOnBase(ds.scalar.s)
             publics == [k \in DOMAIN c.Public |->
                            [ECDSA |-> PointAdd(scalarG, c.Public[k].ECDSA),
                             N |-> c.Public[k].N,
                             S |-> c.Public[k].S,
                             T |-> c.Public[k].T]]
         IN  [config |->
                 [Threshold |-> c.Threshold, Public |-> publics, RID |-> c.RID,
                  ChainKey |-> ds.chainKey, ID |-> c.ID,
                  ECDSA |-> ScalarPtr(ScalarAdd(ds.scalar.s, c.ECDSA.s)),
                  P |-> c.P, Q |-> c.Q],
              err |-> Nil]

CfgIDs == 1 .. MaxCfgParties

\* a public record that passes Public.validate
GoodPublic(e) == [ECDSA |-> [dlog |-> e], N |-> NatPtr(77), S |-> NatPtr(2), T |-> NatPtr(3)]

\* the public records tried for the party of the secret
SelfPublicVals ==
    {Nil} \cup
    [ECDSA : {Nil} \cup {[dlog |-> e] : e \in 0 .. 2},
     N : {Nil, NatPtr(49), NatPtr(77)},
     S : {NatPtr(2)},
     T : {NatPtr(2), NatPtr(3)}]

\* the public records tried for the other parties: nil, valid, invalid
OtherPublicVals ==
    {Nil, GoodPublic(1),
     [ECDSA |-> [dlog |-> 1], N |-> NatPtr(78), S |-> NatPtr(2), T |-> Nil]}

\* the Public maps tried for a Config of party id: any set of parties
PublicMaps(id) ==
    UNION {{f \in [S -> SelfPublicVals \cup OtherPublicVals] :
               \A j \in S : f[j] \in (IF j = id THEN SelfPublicVals ELSE OtherPublicVals)} :
              S \in SUBSET CfgIDs}

NoCall == [op |-> "none"]

\* any Config a caller can hand to Validate
InitValidate ==
    /\ \E id \in CfgIDs, t \in 0 .. MaxCfgParties,
          x \in {Nil} \cup {ScalarPtr(v) : v \in 0 .. 2},
          p \in {Nil, NatPtr(5), NatPtr(7)}, q \in {Nil, NatPtr(7), NatPtr(11)} :
       \E pub \in PublicMaps(id) :
          cfg = [ID |-> id, Threshold |-> t, ECDSA |-> x, P |-> p, Q |-> q,
                 Public |-> pub, RID |-> "rid", ChainKey |-> <<>>]
    /\ call = NoCall

DoValidate ==
    /\ call.op = "none"
    /\ \E res \in Validate(cfg) :
          call' = [op |-> "Validate", result |-> res]
    /\ UNCHANGED cfg
    /\ UNCHANGED <<signVars, polyVars, curveVars>>

\* the Configs CanSign is asked about: any threshold, ID and party set
InitCanSign ==
    /\ \E id \in Parties, t \in 0 .. NParties, ps \in SUBSET Parties :
          cfg = [ID |-> id, Threshold |-> t, ECDSA |-> ScalarPtr(1),
                 P |-> NatPtr(7), Q |-> NatPtr(11),
                 Public |-> [j \in ps |-> GoodPublic(1)],
                 RID |-> "rid", ChainKey |-> <<>>]
    /\ call = NoCall

DoCanSign ==
    /\ call.op = "none"
    /\ \E signers \in ListsUpTo(MaxSigners, Parties) :
          call' = [op |-> "CanSign", signers |-> signers,
                   result |-> CanSign(cfg, signers)]
    /\ UNCHANGED cfg
    /\ UNCHANGED <<signVars, polyVars, curveVars>>

\* the Configs DeriveChild is called on: every pointer set, any secret share
\* and any public share of self, two public shares for each other party
InitDerive ==
    /\ \E ps \in (SUBSET CfgIDs) \ {{}}, x \in Scalars :
       \E id \in ps, t \in {Cardinality(ps) - 1} :
       \E X \in {f \in [ps -> Points] : \A j \in ps \ {id} : f[j].dlog \in {1, 3}} :
          cfg = [ID |-> id, Threshold |-> t, ECDSA |-> ScalarPtr(x),
                 P |-> NatPtr(7), Q |-> NatPtr(11),
                 Public |-> [j \in ps |-> [ECDSA |-> X[j], N |-> NatPtr(77 + 2 * j),
                                           S |-> NatPtr(2), T |-> NatPtr(2 + j)]],
                 RID |-> "rid", ChainKey |-> <<>>]
    /\ call = NoCall

\* DeriveChild(i); on success the calls go on with the child
DoDeriveChild ==
    /\ Len(cfg.ChainKey) < MaxDepth
    /\ \E i \in 0 .. MaxIndex, public \in publicPoint(cfg) :
       \E ds \in DeriveScalar(public, cfg.ChainKey, i) :
          LET res == DeriveChild(cfg, i, ds)
          IN  /\ call' = [op |-> "DeriveChild", parent |-> cfg, i |-> i,
                          public |-> public,
                          scalar |-> ds.scalar, chainKey |-> ds.chainKey,
                          result |-> res]
              /\ cfg' = IF res.err = Nil THEN res.config ELSE cfg
    /\ UNCHANGED <<signVars, polyVars, curveVars>>

IdleConfig ==
    /\ cfg = Nil
    /\ call = NoCall

NextValidate == DoValidate

NextCanSign == DoCanSign

NextDerive == DoDeriveChild

--------------------------------------------------------------------------
(* curve.Point on the wire *)

\* the prime of the coordinate field
FieldPrime == 13

\* the curve is y^2 = x^3 + CurveB
CurveB == 7

\* params.BytesPoint: a format byte and the x coordinate
BytesPoint == 33

Field == 0 .. (FieldPrime - 1)

\* the inverse in the field; the inverse of zero is zero
FieldInv(a) == IF a = 0 THEN 0 ELSE CHOOSE b \in Field : (a * b) % FieldPrime = 1

\* (x, y) is an affine point of the curve
OnCurve(x, y) == (y * y) % FieldPrime = (x * x * x + CurveB) % FieldPrime

\* Point.IsIdentity on Jacobian coordinates
PointIsIdentity(v) == (v.X = 0 /\ v.Y = 0) \/ v.Z = 0

\* Point.toAffine: the same point with Z = 1
toAffine(v) ==
    LET zi == FieldInv(v.Z)
    IN  [X |-> (v.X * zi * zi) % FieldPrime,
         Y |-> (v.Y * zi * zi * zi) % FieldPrime,
         Z |-> 1]

\* FieldVal.PutBytesUnchecked: the 32 bytes of a field value, big-endian
PutBytesUnchecked(x) == [i \in 1 .. (BytesPoint - 1) |-> IF i = BytesPoint - 1 THEN x ELSE 0]

\* FieldVal.SetByteSlice of 32 bytes: the value, and whether it is not below
\* the field prime
SetByteSlice(b) ==
    LET overflow == (\E i \in 1 .. (Len(b) - 1) : b[i] # 0) \/ b[Len(b)] >= FieldPrime
    IN  [overflow |-> overflow, value |-> b[Len(b)] % FieldPrime]

\* secp256k1.DecompressY: the y of the wanted oddness for x, if x is the
\* coordinate of a point
DecompressY(x, wantOddY) ==
    IF \E y \in Field : OnCurve(x, y)
    THEN [ok |-> TRUE,
          y |-> CHOOSE y \in Field : OnCurve(x, y) /\ ((y % 2 = 1) = wantOddY \/ y = 0)]
    ELSE [ok |-> FALSE, y |-> 0]

\* MarshalToSizedBuffer that does not test for the identity
MarshalToSizedBufferNoIdentityTest(v, data) ==
    IF v = Nil
    THEN [v |-> v, data |-> data, n |-> 0, err |-> [error |-> "point is nil"]]
    ELSE LET a == toAffine(v)
             format == IF a.Y % 2 = 1 THEN 3 ELSE 2
             x == PutBytesUnchecked(a.X)
         IN  [v |-> a,
              data |-> [i \in DOMAIN data |->
                           IF i = 1 THEN format
                           ELSE IF i <= BytesPoint THEN x[i - 1] ELSE data[i]],
              n |-> BytesPoint, err |-> Nil]

\* v.MarshalToSizedBuffer(data), data able to hold BytesPoint bytes: the
\* receiver and the buffer afterwards, and what is returned
MarshalToSizedBuffer(v, data) ==
    IF v = Nil
    THEN [v |-> v, data |-> data, n |-> 0, err |-> [error |-> "point is nil"]]
    ELSE IF PointIsIdentity(v)
    THEN [v |-> v, data |-> data, n |-> 0, err |-> [error |-> "tries to marshal identity"]]
    ELSE LET a == toAffine(v)
             format == IF a.Y % 2 = 1 THEN 3 ELSE 2
             x == PutBytesUnchecked(a.X)
         IN  [v |-> a,
              data |-> [i \in DOMAIN data |->
                           IF i = 1 THEN format
                           ELSE IF i <= BytesPoint THEN x[i - 1] ELSE data[i]],
              n |-> BytesPoint, err |-> Nil]

\* v.Marshal(): a new buffer of BytesPoint bytes, nil on error
Marshal(v) ==
    LET data == [i \in 1 .. BytesPoint |-> 0]
        m == MarshalToSizedBuffer(v, SubSeq(data, 1, BytesPoint))
    IN  IF m.err # Nil THEN [v |-> m.v, data |-> Nil, err |-> m.err]
        ELSE [v |-> m.v, data |-> SubSeq(m.data, 1, m.n), err |-> Nil]

\* v.MarshalTo(data): the first BytesPoint bytes of data are the buffer
MarshalTo(v, data) ==
    LET m == MarshalToSizedBuffer(v, SubSeq(data, 1, BytesPoint))
    IN  [v |-> m.v, data |-> m.data \o SubSeq(data, BytesPoint + 1, Len(data)),
         n |-> m.n, err |-> m.err]

\* v.Unmarshal(data): the receiver afterwards and the error; writing the
\* coordinates of a nil receiver is a run-time panic
Unmarshal(v, data) ==
    IF Len(data) < BytesPoint
    THEN [v |-> v, status |-> "error", err |-> [error |-> "data is too small"]]
    ELSE IF data[1] \notin {2, 3}
    THEN [v |-> v, status |-> "error", err |-> [error |-> "incorrect format"]]
    ELSE LET x == SetByteSlice(SubSeq(data, 2, BytesPoint))
         IN  IF x.overflow
             THEN [v |-> v, status |-> "error",
                   err |-> [error |-> "invalid point: x >= field prime"]]
             ELSE LET y == DecompressY(x.value, data[1] = 3)
                  IN  IF ~y.ok
                      THEN [v |-> v, status |-> "error",
                            err |-> [error |-> "invalid point: x coordinate is not on the curve"]]
                      ELSE IF v = Nil
                      THEN [v |-> v, status |-> "panic",
                            err |-> [error |-> "nil pointer dereference"]]
                      ELSE [v |-> [X |-> x.value, Y |-> y.y, Z |-> 1],
                            status |-> "ok", err |-> Nil]

\* the Jacobian coordinates of the points of the curve
CurvePoints ==
    {v \in [X : Field, Y : Field, Z : 1 .. (FieldPrime - 1)] :
        OnCurve(toAffine(v).X, toAffine(v).Y)}

\* the receivers: nil, the identity as NewIdentityPoint makes it and as a
\* sum leaves it, and every point of the curve
Receivers ==
    {Nil, [X |-> 0, Y |-> 0, Z |-> 0], [X |-> 1, Y |-> 1, Z |-> 0]} \cup CurvePoints

\* the buffers handed to MarshalTo and MarshalToSizedBuffer
Buffers == {[i \in 1 .. n |-> 255] : n \in {BytesPoint, BytesPoint + 1}}

\* the byte strings handed to Unmarshal: of any length around BytesPoint, any
\* format byte, an x below, at and above the field prime
WireData ==
    {[i \in 1 .. n |-> IF i = 1 THEN format
                        ELSE IF i = 2 THEN hi
                        ELSE IF i = BytesPoint THEN x ELSE 0] :
        n \in {0, BytesPoint - 1, BytesPoint, BytesPoint + 1},
        format \in {0, 2, 3, 4}, hi \in {0, 1}, x \in 0 .. (FieldPrime + 1)}

NoWireCall == [op |-> "none"]

InitCurve ==
    /\ pt \in Receivers
    /\ wcall = NoWireCall

DoMarshal ==
    /\ wcall.op = "none"
    /\ LET m == Marshal(pt)
       IN  /\ pt' = m.v
           /\ wcall' = [op |-> "Marshal", v |-> pt, data |-> m.data, err |-> m.err]
    /\ UNCHANGED <<signVars, polyVars, cfgVars>>

DoMarshalTo ==
    /\ wcall.op = "none"
    /\ \E buf \in Buffers :
          LET m == MarshalTo(pt, buf)
          IN  /\ pt' = m.v
              /\ wcall' = [op |-> "MarshalTo", v |-> pt, buf |-> buf,
                            data |-> m.data, n |-> m.n, err |-> m.err]
    /\ UNCHANGED <<signVars, polyVars, cfgVars>>

DoMarshalToSizedBuffer ==
    /\ wcall.op = "none"
    /\ \E buf \in Buffers :
          LET m == MarshalToSizedBuffer(pt, buf)
          IN  /\ pt' = m.v
              /\ wcall' = [op |-> "MarshalToSizedBuffer", v |-> pt, buf |-> buf,
                            data |-> m.data, n |-> m.n, err |-> m.err]
    /\ UNCHANGED <<signVars, polyVars, cfgVars>>

DoUnmarshal ==
    /\ wcall.op = "none"
    /\ \E data \in WireData :
          LET u == Unmarshal(pt, data)
          IN  /\ pt' = u.v
              /\ wcall' = [op |-> "Unmarshal", v |-> pt, data |-> data,
                            status |-> u.status, err |-> u.err]
    /\ UNCHANGED <<signVars, polyVars, cfgVars>>

IdleCurve ==
    /\ pt = Nil
    /\ wcall = NoWireCall

NextCurve ==
    \/ DoMarshal
    \/ DoMarshalTo
    \/ DoMarshalToSizedBuffer
    \/ DoUnmarshal

--------------------------------------------------------------------------
(* Specifications *)

\* a signing session; no polynomial is built, no Config is used
InitSignOnly ==
    /\ InitSign
    /\ IdlePoly
    /\ IdleConfig
    /\ IdleCurve

\* polynomials only
InitPolyOnly ==
    /\ InitPoly
    /\ IdleSign
    /\ IdleConfig
    /\ IdleCurve

\* calls of Validate only
InitValidateOnly ==
    /\ InitValidate
    /\ IdleSign
    /\ IdlePoly
    /\ IdleCurve

\* calls of CanSign only
InitCanSignOnly ==
    /\ InitCanSign
    /\ IdleSign
    /\ IdlePoly
    /\ IdleCurve

\* calls of DeriveChild only
InitDeriveOnly ==
    /\ InitDerive
    /\ IdleSign
    /\ IdlePoly
    /\ IdleCurve

\* calls of Marshal and Unmarshal only
InitCurveOnly ==
    /\ InitCurve
    /\ IdleSign
    /\ IdlePoly
    /\ IdleConfig

SpecSign == InitSignOnly /\ [][NextSign]_vars

SpecPoly == InitPolyOnly /\ [][NextPoly]_vars

SpecValidate == InitValidateOnly /\ [][NextValidate]_vars

SpecCanSign == InitCanSignOnly /\ [][NextCanSign]_vars

SpecDerive == InitDeriveOnly /\ [][NextDerive]_vars

SpecCurve == InitCurveOnly /\ [][NextCurve]_vars

--------------------------------------------------------------------------
(* Claims about signing round 1 *)

FinalizeSucceeded == ret # Nil /\ ret.err = Nil

OtherIDSet == {OtherPartyIDs[i] : i \in DOMAIN OtherPartyIDs}

\* C1: a successful round 1 Finalize (either version) has put on the out
\* channel exactly one Sign2 message for each party of OtherPartyIDs and none
\* for SelfID; every message carries the ciphertexts K_i and G_i, and the
\* message to peer j carries the proof built with peer j's Pedersen
\* parameters as Aux and no other party's.
C1_OneSign2PerPeer ==
    FinalizeSucceeded =>
        /\ Len(out) = Len(OtherPartyIDs)
        /\ \A j \in OtherIDSet :
              Cardinality({i \in DOMAIN out : out[i].To = j}) = 1
        /\ \A i \in DOMAIN out :
              /\ out[i].To # SelfID
              /\ out[i].To \in OtherIDSet
              /\ out[i].From = SelfID
              /\ out[i].Content.K = smp.K
              /\ out[i].Content.G = smp.G
              /\ out[i].Content.ProofEnc.K = smp.K
              /\ out[i].Content.ProofEnc.Aux = r.Pedersen[out[i].To]
              /\ \A j \in r.PartyIDs \ {out[i].To} :
                    out[i].Content.ProofEnc.Aux # r.Pedersen[j]

\* C1 witness: the worker-pool Finalize succeeded with two peers whose
\* messages were sent in the reverse of the peer order.
C1_Witness ==
    /\ FinalizeSucceeded
    /\ version = "pool"
    /\ Len(out) = 2
    /\ out[1].To > out[2].To

\* C2: on success Finalize returns a round2 state that embeds the round1
\* state, carries gamma_i, k_i and both nonces, and whose K, G and
\* BigGammaShare maps hold exactly one entry, keyed by SelfID:
\* K_i = Enc(k_i; rho_i), G_i = Enc(gamma_i; nu_i), Gamma_i = gamma_i * G.
C2_Round2SeededWithSelf ==
    FinalizeSucceeded =>
        LET r2 == ret.round
        IN  /\ r2.kind = "round2"
            /\ r2.round1 = r
            /\ r2.GammaShare = smp.GammaShare
            /\ r2.KShare = smp.KShare
            /\ r2.KNonce = smp.KNonce
            /\ r2.GNonce = smp.GNonce
            /\ DOMAIN r2.K = {SelfID}
            /\ DOMAIN r2.G = {SelfID}
            /\ DOMAIN r2.BigGammaShare = {SelfID}
            /\ r2.K[SelfID] = Enc(r.Paillier[SelfID], r2.KShare, r2.KNonce)
            /\ r2.G[SelfID] = Enc(r.Paillier[SelfID], r2.GammaShare, r2.GNonce)
            /\ r2.BigGammaShare[SelfID] = ActOnBase(r2.GammaShare)

\* C2 witness: the sequential Finalize succeeded in a session with peers.
C2_Witness ==
    /\ FinalizeSucceeded
    /\ version = "seq"
    /\ Len(OtherPartyIDs) >= 2
    /\ ret.round.kind = "round2"
    /\ ret.round.GammaShare # 0

\* C3: in the worker-pool Finalize, when the task of some peer failed,
\* Finalize has returned only with every task finished, the error returned is
\* the first non-nil entry of errors in peer-index order, and the round
\* returned is the round1 state, never a round2 state; while tasks run,
\* Finalize has not returned.
C3_PoolErrorAfterJoin ==
    /\ (version = "pool" /\ pc = "parallel") => ret = Nil
    /\ (version = "pool" /\ ret # Nil /\ \E i \in DOMAIN errors : errors[i] # Nil) =>
          /\ \A i \in DOMAIN tasks : tasks[i] = "done"
          /\ \E i \in DOMAIN errors :
                /\ errors[i] # Nil
                /\ \A k \in 1 .. (i - 1) : errors[k] = Nil
                /\ ret.err = errors[i]
          /\ ret.round = [kind |-> "round1", round1 |-> r]
    /\ (ret # Nil /\ ret.err # Nil) => ret.round.kind = "round1"

\* C3 witness: the worker-pool Finalize returned after two tasks failed, the
\* second finishing before the first.
C3_Witness ==
    /\ version = "pool"
    /\ ret # Nil
    /\ Len(errors) = 2
    /\ errors[1] # Nil
    /\ errors[2] # Nil
    /\ errors[1] # errors[2]
    /\ ret.err = errors[1]

\* the transcript of the task for peer j: a fresh clone of the session hash
\* bound to self, then what the proof for j writes
OwnTranscript(j) ==
    <<"ssid", r.PartyIDs, "id", SelfID, smp.K, r.Paillier[SelfID], r.Pedersen[j]>>

\* the content of the message for peer j, from the values fixed before the
\* tasks start
ContentFor(j) ==
    [ProofEnc |-> [transcript |-> OwnTranscript(j),
                   K |-> smp.K, Prover |-> r.Paillier[SelfID], Aux |-> r.Pedersen[j],
                   k |-> smp.KShare, rho |-> smp.KNonce],
     K |-> smp.K, G |-> smp.G]

\* C15: in the worker-pool Finalize, whatever the order in which the tasks
\* run and end, the task for peer j has written to its own hash only, that
\* hash holds nothing another task wrote, and the message it sends to j has
\* the content given by K, G, k, rho and the Pedersen parameters of j alone.
C15_TasksDoNotInterfere ==
    version = "pool" =>
        /\ \A i \in DOMAIN tasks :
              IF tasks[i] = "todo"
              THEN taskHash[i] = <<>> /\ taskProof[i] = Nil
              ELSE /\ taskHash[i] = OwnTranscript(OtherPartyIDs[i])
                   /\ taskProof[i] = ContentFor(OtherPartyIDs[i]).ProofEnc
        /\ \A n \in DOMAIN out :
              /\ out[n].From = SelfID
              /\ out[n].To \in OtherIDSet
              /\ out[n].Content = ContentFor(out[n].To)

\* C15 witness: with two peers, the task of the second peer has sent its
\* message while the task of the first has built its proof and not yet sent.
C15_Witness ==
    /\ version = "pool"
    /\ pc = "parallel"
    /\ Len(tasks) = 2
    /\ tasks[1] = "proved"
    /\ tasks[2] = "done"
    /\ Len(out) = 1
    /\ out[1].To = OtherPartyIDs[2]
    /\ out[1].Content = ContentFor(OtherPartyIDs[2])

--------------------------------------------------------------------------
(* Claims about polynomials in the exponent *)

RECURSIVE SumOfPoints(_)
SumOfPoints(ps) ==
    IF Len(ps) = 0 THEN NewPoint ELSE PointAdd(ps[1], SumOfPoints(Tail(ps)))

RECURSIVE SumOfScalars(_)
SumOfScalars(ss) ==
    IF Len(ss) = 0 THEN 0 ELSE ScalarAdd(ss[1], SumOfScalars(Tail(ss)))

SumReturned == ppc \in {"summed", "done"}

SameDegree == \A i, j \in DOMAIN polys : Len(polys[i]) = Len(polys[j])

SameZeroConstant == \A i, j \in DOMAIN polys : (polys[i][1] = 0) <=> (polys[j][1] = 0)

\* two operands of Sum differ in coefficient-sequence length or in IsConstant
OperandsDiffer ==
    \E i, j \in DOMAIN polys :
        LET p == NewPolynomialExponent(polys[i])
            q == NewPolynomialExponent(polys[j])
        IN  Len(p.Coefficients) # Len(q.Coefficients) \/ p.IsConstant # q.IsConstant

InputsUnmodified ==
    \A i \in DOMAIN exps : heap[exps[i]] = NewPolynomialExponent(polys[i])

\* C4: for every polynomial f, also one with a0 = 0 (IsConstant, A0 omitted),
\* and every scalar x, Evaluate and evaluateClassic of
\* NewPolynomialExponent(f) at x both return f(x) * G, and so agree.
C4_EvaluateIsPolyTimesG ==
    \A i \in DOMAIN evals :
        /\ evals[i].Evaluate = ActOnBase(PolyEvaluate(polys[i], xval))
        /\ evals[i].evaluateClassic = ActOnBase(PolyEvaluate(polys[i], xval))
        /\ evals[i].Evaluate = evals[i].evaluateClassic

\* C4 witness: a polynomial of degree at least 2 with a0 = 0 was evaluated
\* at x = 2 to a point that is not the identity.
C4_Witness ==
    /\ ppc = "evaluated"
    /\ Len(polys) = 1
    /\ Len(polys[1]) >= 3
    /\ polys[1][1] = 0
    /\ heap[exps[1]].IsConstant
    /\ xval = 2
    /\ ~IsIdentity(evals[1].Evaluate)

\* what C5 and its amendment say of a list once Sum has returned
SumEvaluatesToSum ==
    /\ sumRes.status = "ok"
    /\ ppc = "done" =>
          /\ sumEval = SumOfPoints([i \in DOMAIN evals |-> evals[i].Evaluate])
          /\ sumEval = ActOnBase(SumOfScalars(
                          [i \in DOMAIN polys |-> PolyEvaluate(polys[i], xval)]))

\* C5 as stated: for every non-empty list of polynomials of the same degree
\* and every scalar x, Sum of their exponent polynomials evaluated at x is the
\* sum of the single evaluations and is (f_1(x) + ... + f_m(x)) * G.
C5_Original ==
    (SumReturned /\ Len(polys) >= 1 /\ SameDegree) => SumEvaluatesToSum

\* C5 amended: the same, for the lists whose constant terms are all zero or
\* all non-zero; these are the lists of one degree on which Sum succeeds.
C5_SumEvaluatesToSum ==
    (SumReturned /\ Len(polys) >= 1 /\ SameDegree) =>
        /\ SameZeroConstant => SumEvaluatesToSum
        /\ ~SameZeroConstant => (sumRes.status = "error" /\ sumRes.ptr = NilPtr)

\* C5 witness: Sum of two polynomials of degree 1 with non-zero constant
\* terms that cancel was evaluated at x = 2.
C5_Witness ==
    /\ ppc = "done"
    /\ Len(polys) = 2
    /\ Len(polys[1]) = 2
    /\ Len(polys[2]) = 2
    /\ polys[1][1] # 0
    /\ ScalarAdd(polys[1][1], polys[2][1]) = 0
    /\ xval = 2
    /\ ~IsIdentity(sumEval)

\* what C6 and its amendment say of a list once Sum has returned
SumErrorIffOperandsDiffer ==
    /\ OperandsDiffer =>
          (sumRes.status = "error" /\ sumRes.ptr = NilPtr /\ sumRes.err # Nil)
    /\ ~OperandsDiffer =>
          (sumRes.status = "ok" /\ sumRes.ptr # NilPtr /\ sumRes.err = Nil)
    /\ InputsUnmodified

\* C6 as stated: Sum over a list returns an error and no polynomial whenever
\* two operands differ in length or in IsConstant, and succeeds otherwise;
\* no input is modified.
C6_Original ==
    SumReturned => SumErrorIffOperandsDiffer

\* C6 amended: the same for every non-empty list; on the empty list Sum
\* neither succeeds nor returns an error (polynomials[0] panics).
C6_SumErrorIffOperandsDiffer ==
    SumReturned =>
        /\ Len(exps) >= 1 => SumErrorIffOperandsDiffer
        /\ Len(exps) = 0 => sumRes.status = "panic"

\* C6 witness: Sum returned an error for two operands of the same length
\* that differ in IsConstant.
C6_Witness ==
    /\ SumReturned
    /\ Len(exps) = 2
    /\ Len(heap[exps[1]].Coefficients) = Len(heap[exps[2]].Coefficients)
    /\ heap[exps[1]].IsConstant # heap[exps[2]].IsConstant
    /\ sumRes.status = "error"

--------------------------------------------------------------------------
(* Claims about keygen.Config *)

\* C7: CanSign(signers) is true if and only if there are more signers than
\* the threshold, the list is sorted without duplicates, every signer has a
\* public record in the Config, and the Config's own ID is among them.
C7_CanSignIff ==
    call.op = "CanSign" =>
        LET signers == call.signers
        IN  call.result <=>
               /\ Len(signers) > cfg.Threshold
               /\ \A i, j \in DOMAIN signers : i < j => signers[i] < signers[j]
               /\ \A i \in DOMAIN signers : signers[i] \in DOMAIN cfg.Public
               /\ \E i \in DOMAIN signers : signers[i] = cfg.ID

\* C7 witness: CanSign returned true for threshold + 1 signers, a proper
\* subset of the parties, at a threshold of at least 1.
C7_Witness ==
    /\ call.op = "CanSign"
    /\ call.result
    /\ cfg.Threshold >= 1
    /\ Len(call.signers) = cfg.Threshold + 1
    /\ Cardinality(DOMAIN cfg.Public) > Len(call.signers)

ErrPQ == [error |-> "config: P*Q != N"]

\* every check of Validate other than the one on P*Q passes
OtherChecksPass ==
    /\ cfg.Threshold >= 0
    /\ cfg.Threshold <= Cardinality(DOMAIN cfg.Public) - 1
    /\ cfg.ECDSA # Nil /\ cfg.P # Nil /\ cfg.Q # Nil
    /\ cfg.ECDSA.s # 0
    /\ ValidatePrime(cfg.P) = Nil
    /\ ValidatePrime(cfg.Q) = Nil
    /\ \A j \in DOMAIN cfg.Public : PublicValidate(cfg.Public[j]) = Nil
    /\ cfg.ID \in DOMAIN cfg.Public
    /\ cfg.Public[cfg.ID].ECDSA = [dlog |-> cfg.ECDSA.s]

\* C8: with every other check passing, Validate returns the P*Q != N error
\* exactly when P*Q differs from the modulus N of self, and nil when they
\* are equal; it returns that error for no Config with P*Q = N.
C8_PQErrorIffDiffers ==
    call.op = "Validate" =>
        /\ OtherChecksPass =>
              IF cfg.P.n * cfg.Q.n # cfg.Public[cfg.ID].N.n
              THEN call.result = ErrPQ
              ELSE call.result = Nil
        /\ call.result = ErrPQ =>
              (OtherChecksPass /\ cfg.P.n * cfg.Q.n # cfg.Public[cfg.ID].N.n)

\* C8 witness: Validate returned the P*Q != N error for valid primes.
C8_Witness ==
    /\ call.op = "Validate"
    /\ call.result = ErrPQ
    /\ cfg.P.n = 7
    /\ cfg.Q.n = 11
    /\ cfg.Public[cfg.ID].N.n = 49

\* C9: Validate returns nil only if x_i is present and non-zero, the Config
\* has a public record for its own ID, and x_i * G is the public share of
\* self; so it returns an error whenever one of these fails.
C9_NilOnlyIfShareCorresponds ==
    (call.op = "Validate" /\ call.result = Nil) =>
        /\ cfg.ECDSA # Nil
        /\ cfg.ECDSA.s # 0
        /\ cfg.ID \in DOMAIN cfg.Public
        /\ cfg.Public[cfg.ID] # Nil
        /\ cfg.Public[cfg.ID].ECDSA = [dlog |-> cfg.ECDSA.s % GroupOrder]

\* C9 witness: Validate returned the error of a secret share that does not
\* correspond to the public share of self.
C9_Witness ==
    /\ call.op = "Validate"
    /\ call.result =
          [error |-> "config: ECDSA secret key share does not correspond to public share"]
    /\ cfg.ECDSA.s = 2
    /\ cfg.Public[cfg.ID].ECDSA = [dlog |-> 1]

\* C10: when the derivation succeeds with scalar d, DeriveChild returns a
\* Config with secret share x_i + d, public shares X_j + d*G for every party,
\* the derived chain key, and the parent's ID, Threshold, party set, P, Q,
\* RID and every N, S, T; if x_i*G = X_self in the parent then also in the
\* child. When the derivation fails it returns the error and no Config.
C10_DeriveChildShifts ==
    call.op = "DeriveChild" =>
        LET parent == call.parent
            res == call.result
        IN  IF call.scalar = Nil
            THEN res.config = Nil /\ res.err # Nil /\ cfg = parent
            ELSE LET d == call.scalar.s
                     child == res.config
                 IN  /\ res.err = Nil
                     /\ cfg = child
                     /\ child.ECDSA = ScalarPtr((parent.ECDSA.s + d) % GroupOrder)
                     /\ DOMAIN child.Public = DOMAIN parent.Public
                     /\ \A j \in DOMAIN parent.Public :
                           /\ child.Public[j].ECDSA.dlog =
                                 (parent.Public[j].ECDSA.dlog + d) % GroupOrder
                           /\ child.Public[j].N = parent.Public[j].N
                           /\ child.Public[j].S = parent.Public[j].S
                           /\ child.Public[j].T = parent.Public[j].T
                     /\ child.ChainKey = call.chainKey
                     /\ child.ID = parent.ID
                     /\ child.Threshold = parent.Threshold
                     /\ child.P = parent.P
                     /\ child.Q = parent.Q
                     /\ child.RID = parent.RID
                     /\ (ActOnBase(parent.ECDSA.s) = parent.Public[parent.ID].ECDSA)
                           => (ActOnBase(child.ECDSA.s) = child.Public[child.ID].ECDSA)

\* C10 witness: a Config of two parties whose secret share corresponds to
\* its public share was derived with a non-zero scalar.
C10_Witness ==
    /\ call.op = "DeriveChild"
    /\ call.scalar # Nil
    /\ call.scalar.s = 3
    /\ Cardinality(DOMAIN cfg.Public) = 2
    /\ call.parent.ECDSA.s = 4
    /\ call.parent.Public[cfg.ID].ECDSA = [dlog |-> 4]
    /\ cfg.ECDSA.s = 2

\* C11: when DeriveChild succeeds with scalar d, the group public key of the
\* child (the Lagrange interpolation at 0 of its public shares over all its
\* parties) is the parent's group public key Y plus d*G, whatever the order
\* in which the party map is visited in the parent and in the child.
C11_ChildKeyIsBip32Child ==
    (call.op = "DeriveChild" /\ call.scalar # Nil) =>
        /\ publicPoint(call.parent) = {call.public}
        /\ publicPoint(call.result.config) =
               {PointAdd(call.public, ActOnBase(call.scalar.s))}

\* C11 witness: a Config of two parties with a group public key other than
\* the identity was derived with a non-zero scalar.
C11_Witness ==
    /\ call.op = "DeriveChild"
    /\ call.scalar # Nil
    /\ call.scalar.s = 2
    /\ Cardinality(DOMAIN call.parent.Public) = 2
    /\ call.public = [dlog |-> 4]
    /\ publicPoint(cfg) = {[dlog |-> 1]}

--------------------------------------------------------------------------
(* Claims about the binary form of polynomials in the exponent *)

\* the objects whose stored coefficients are all other than the identity
NoIdentityStored(e) == \A i \in DOMAIN e.Coefficients : ~IsIdentity(e.Coefficients[i])

\* C12: for every exponent polynomial whose stored coefficients are all
\* other than the identity, MarshalBinary succeeds and UnmarshalBinary of its
\* bytes on an empty Exponent succeeds and gives an exponent polynomial Equal
\* to it, with the same IsConstant and the same Degree.
C12_BinaryRoundTrip ==
    ppc = "unmarshalled" =>
        \A a \in DOMAIN heap :
            NoIdentityStored(heap[a]) =>
                /\ wire[a].err = Nil
                /\ decoded[a].err = Nil
                /\ Equal(decoded[a].e, heap[a])
                /\ decoded[a].e.IsConstant = heap[a].IsConstant
                /\ Degree(decoded[a].e) = Degree(heap[a])

\* C12 witness: a polynomial with a zero constant term and one with a
\* non-zero constant term, both of degree one, went through the round trip.
C12_Witness ==
    /\ ppc = "unmarshalled"
    /\ Len(exps) = 2
    /\ heap[1].IsConstant /\ Degree(heap[1]) = 1 /\ NoIdentityStored(heap[1])
    /\ ~heap[2].IsConstant /\ Degree(heap[2]) = 1 /\ NoIdentityStored(heap[2])
    /\ decoded[1].err = Nil /\ decoded[2].err = Nil

\* the first four bytes of the bytes MarshalBinary returned for object a
SizePrefix(a) == BigEndianUint32(SubSeq(wire[a].data, 1, 4))

\* C13 as stated: the first four bytes of MarshalBinary(e), read big-endian,
\* are the degree of e, whether IsConstant is true or false.
C13_Original ==
    ppc \in {"marshalled", "unmarshalled"} =>
        \A a \in DOMAIN heap :
            wire[a].err = Nil => SizePrefix(a) = Degree(heap[a])

\* C13: the first four bytes of MarshalBinary(e), read big-endian, are the
\* number of stored coefficients: the degree of e when IsConstant is true,
\* the degree plus one when it is false.
C13_PrefixIsCoefficientCount ==
    ppc \in {"marshalled", "unmarshalled"} =>
        \A a \in DOMAIN heap :
            wire[a].err = Nil =>
                /\ SizePrefix(a) = Len(heap[a].Coefficients)
                /\ heap[a].IsConstant => SizePrefix(a) = Degree(heap[a])
                /\ ~heap[a].IsConstant => SizePrefix(a) = Degree(heap[a]) + 1

\* C13 witness: MarshalBinary succeeded on a polynomial of degree two whose
\* IsConstant is false, and wrote three as the size.
C13_Witness ==
    /\ ppc = "marshalled"
    /\ Len(exps) = 1
    /\ wire[1].err = Nil
    /\ Degree(heap[1]) = 2
    /\ ~heap[1].IsConstant
    /\ SizePrefix(1) = 3

--------------------------------------------------------------------------
(* Claims about curve.Point on the wire *)

\* C14: Marshal, MarshalTo and MarshalToSizedBuffer of the identity or of a
\* nil point return an error with no byte written; every successful marshal
\* gives exactly BytesPoint bytes, the first of them 2 or 3; Unmarshal either
\* fails and leaves the receiver as it was, or leaves in it an affine point
\* of the curve, Z = 1, which is not the identity.
C14_IdentityNotOnWire ==
    /\ wcall.op \in {"Marshal", "MarshalTo", "MarshalToSizedBuffer"} =>
          /\ (wcall.v = Nil \/ PointIsIdentity(wcall.v)) =>
                 /\ wcall.err # Nil
                 /\ pt = wcall.v
                 /\ IF wcall.op = "Marshal" THEN wcall.data = Nil
                    ELSE wcall.n = 0 /\ wcall.data = wcall.buf
          /\ wcall.err = Nil =>
                 /\ wcall.data[1] \in {2, 3}
                 /\ IF wcall.op = "Marshal" THEN Len(wcall.data) = BytesPoint
                    ELSE /\ wcall.n = BytesPoint
                         /\ \A i \in (BytesPoint + 1) .. Len(wcall.buf) :
                               wcall.data[i] = wcall.buf[i]
          /\ wcall.err # Nil => (wcall.v = Nil \/ PointIsIdentity(wcall.v))
    /\ wcall.op = "Unmarshal" =>
          IF wcall.status = "ok"
          THEN /\ wcall.err = Nil
               /\ ~PointIsIdentity(pt)
               /\ pt.Z = 1
               /\ OnCurve(pt.X, pt.Y)
          ELSE /\ wcall.err # Nil
               /\ pt = wcall.v

\* C14 witness: MarshalTo of an identity point returned an error and wrote
\* nothing to the buffer.
C14_Witness ==
    /\ wcall.op = "MarshalTo"
    /\ wcall.v # Nil
    /\ wcall.v.Z = 0
    /\ wcall.err # Nil
    /\ wcall.n = 0
    /\ wcall.data = wcall.buf

--------------------------------------------------------------------------
(* Claims about the representation of polynomials in the exponent *)

\* e represents a polynomial of degree t whose constant term is a0 * G,
\* within the representation invariant
Represents(e, a0, t) ==
    /\ e.IsConstant <=> IsIdentity(ActOnBase(a0))
    /\ e.IsConstant => Len(e.Coefficients) = t
    /\ ~e.IsConstant =>
          /\ Len(e.Coefficients) = t + 1
          /\ ~IsIdentity(e.Coefficients[1])
    /\ IsIdentity(Constant(e)) => e.IsConstant

\* the constant term of the sum of the input polynomials
SumConstant == SumOfScalars([i \in DOMAIN polys |-> polys[i][1]])

\* C16: every exponent polynomial made by NewPolynomialExponent, and the one
\* a successful Sum of them returns, has IsConstant true exactly when the
\* constant term of the polynomial it stands for is the identity, then with
\* as many stored coefficients as the degree, and otherwise a first stored
\* coefficient other than the identity and one more coefficient than the
\* degree; Constant() is the identity only when IsConstant is true.
C16_RepresentationInvariant ==
    /\ \A i \in DOMAIN exps :
          Represents(heap[exps[i]], polys[i][1], Len(polys[i]) - 1)
    /\ (sumRes # Nil /\ sumRes.status = "ok") =>
          Represents(heap[sumRes.ptr], SumConstant, Len(polys[1]) - 1)

==========================================================================
